---- MODULE Spec2Model ----
(***************************************************************************)
(* Model of the lowRISC USB device controller driver                       *)
(* (chips/lowrisc/src/usbdev.rs): the controller state cell, the           *)
(* memory-mapped registers the driver writes, the endpoint descriptor      *)
(* table and the public operations of hil::usb::UsbController.             *)
(***************************************************************************)
EXTENDS Integers, Sequences, FiniteSets, TLC

(* ----------------------------- bounds -------------------------------- *)

\* Endpoints passed to the endpoint-enable operations are 0..MaxEndpoint
\* plus endpoint 10, whose bit attach() names.
MaxEndpoint == 0

\* Endpoints passed to the buffer-set operations are 0..MaxBufEndpoint plus
\* the last slot of the table and the first index past it.
MaxBufEndpoint == 0

\* Buffers handed to the buffer-set operations are 1..MaxBuffers.
MaxBuffers == 2

(* ------------------------ program constants -------------------------- *)

N_ENDPOINTS == 12

\* Bit offsets of the named fields the driver writes.
SETUP0 == 0

SETUP10 == 10

OUT0 == 0

ENABLE == 0

\* Bit offsets of the interrupt-status fields the hardware raises here: an
\* ordinary event and an error.
PKT_RECEIVED == 0

RX_CRC_ERR == 11

IntrBits == {PKT_RECEIVED, RX_CRC_ERR}

Endpoints == 0..(N_ENDPOINTS - 1)

EndpointInputs == (0..MaxEndpoint) \cup {SETUP10}

\* The buffer-set operations take any usize; N_ENDPOINTS is the first index
\* outside the descriptor table.
BufEndpointInputs == (0..MaxBufEndpoint) \cup {N_ENDPOINTS - 1, N_ENDPOINTS}

Buffers == 1..MaxBuffers

\* ptr::null_mut()
NULL == 0

TransferType == {"Control", "Bulk", "Interrupt", "Isochronous"}

DeviceSpeed == {"Full", "Low"}

RegNames == {"intr_state", "usbctrl", "rxenable_setup", "rxenable_out", "iso"}

(* --------------------------- data model ------------------------------ *)

DeviceConfig_default == [e \in Endpoints |-> "None"]

DeviceState_default == [e \in Endpoints |-> "Disabled"]

Host == [kind |-> "Host"]

Device(speed, config, dstate) ==
    [kind |-> "Device", speed |-> speed, config |-> config, state |-> dstate]

Reset == [tag |-> "Reset"]

Idle(mode) == [tag |-> "Idle", mode |-> mode]

Active(mode) == [tag |-> "Active", mode |-> mode]

\* OptionalCell<State>
None == [is_some |-> FALSE]

Some(v) == [is_some |-> TRUE, val |-> v]

Endpoint_new == NULL

(* ------------------------- register interface ------------------------ *)

\* A register access the driver issues: the register and the full 32-bit
\* value stored into it.  Every offset and endpoint used is below
\* N_ENDPOINTS, so no shift reaches the register's width.
RegWrite(reg, val) == [reg |-> reg, val |-> val]

\* reg.write(FIELD::SET): the register becomes the field's value, every
\* other bit zero.
write(reg, offset) == RegWrite(reg, 2 ^ offset)

\* reg.set(1 << endpoint): the raw value replaces the register's contents.
set(reg, endpoint) == RegWrite(reg, 2 ^ endpoint)

RECURSIVE ApplyWrites(_, _)
ApplyWrites(r, ws) ==
    IF ws = << >> THEN r
    ELSE ApplyWrites([r EXCEPT ![Head(ws).reg] = Head(ws).val], Tail(ws))

Bit(v, i) == (v \div (2 ^ i)) % 2 = 1

\* The hardware asserting one status bit of a register.
SetBit(v, i) == IF Bit(v, i) THEN v ELSE v + 2 ^ i

(* ------------------------------ state -------------------------------- *)

VARIABLES
    state,        \* Usb.state: OptionalCell<State>
    regs,         \* the register block, by register name
    descriptors,  \* Usb.descriptors: [Endpoint; N_ENDPOINTS], the addr field
    writes,       \* register writes issued by the last call, in order
    log,          \* message of the last debug!/client_warn!, "" if none
    panic,        \* "none", or the message of the panic that halted the kernel
    last_call,    \* the call, with its arguments, that ran the last
                  \* statement, or the last hardware event
    pc            \* the call in progress and its position, or idle

vars == <<state, regs, descriptors, writes, log, panic, last_call, pc>>

\* No call is in progress.
idle == [op |-> "idle"]

Init ==
    /\ state = Some(Reset)
    /\ regs = [r \in RegNames |-> 0]
    /\ descriptors = [e \in Endpoints |-> Endpoint_new]
    /\ writes = << >>
    /\ log = ""
    /\ panic = "none"
    /\ last_call = [op |-> "new"]
    /\ pc = idle

(* --------------------- outcomes of a call's body --------------------- *)

\* The call ran to its end: the cell it leaves, the register writes it
\* issued and the message it logged.
Return(cell, ws, msg) == [state |-> cell, writes |-> ws, log |-> msg, panic |-> "none"]

\* The call panicked: nothing it did before is undone, the kernel halts.
Abort(cell, ws, msg) == [state |-> cell, writes |-> ws, log |-> "", panic |-> msg]

\* unimplemented!() left as an empty body: the call returns as if it had
\* succeeded.
Unimplemented_silent(cell) == Return(cell, << >>, "")

\* unimplemented!()
Unimplemented(cell) == Abort(cell, << >>, "not implemented")

(* ------------------------- private functions ------------------------- *)

\* get_state: OptionalCell::expect panics on an empty cell.
get_state_ok(cell) == cell.is_some

get_state(cell) == cell.val

set_state(st) == Some(st)

\* _enable asserting the global enable bit before the receive masks are
\* programmed.
_enable_writes_enable_first ==
    << write("usbctrl", ENABLE),
       write("rxenable_setup", SETUP0),
       write("rxenable_out", OUT0) >>

_enable_writes ==
    << write("rxenable_setup", SETUP0),
       write("rxenable_out", OUT0),
       write("usbctrl", ENABLE) >>

\* _enable with the wrong variant stored: the controller goes straight to
\* Active.
_enable_stores_active(cell, mode) ==
    IF ~get_state_ok(cell)
    THEN Abort(cell, << >>, "get_state: state value is in use")
    ELSE IF get_state(cell).tag = "Reset"
         THEN Return(set_state(Active(mode)), _enable_writes, "")
         ELSE Abort(cell, << >>, "Already enabled")

_enable(cell, mode) ==
    IF ~get_state_ok(cell)
    THEN Abort(cell, << >>, "get_state: state value is in use")
    ELSE IF get_state(cell).tag = "Reset"
         THEN Return(set_state(Idle(mode)), _enable_writes, "")
         ELSE Abort(cell, << >>, "Already enabled")

\* _endpoint_bank_set_buffer that ignores its endpoint argument and always
\* stores into slot 0.
_endpoint_bank_set_buffer_slot0(descr, endpoint, buf) ==
    [descr EXCEPT ![0] = buf]

\* _endpoint_bank_set_buffer that keeps a slot's first assignment.
_endpoint_bank_set_buffer_keep_first(descr, endpoint, buf) ==
    IF descr[endpoint] = NULL THEN [descr EXCEPT ![endpoint] = buf] ELSE descr

\* The descriptor table indexed without the bound check: every index is
\* let through to the store.
_endpoint_bank_set_buffer_ok_unchecked(endpoint) == TRUE

\* self.descriptors[e].set_addr(p); indexing the array checks the bound.
_endpoint_bank_set_buffer_ok(endpoint) == endpoint < N_ENDPOINTS

_endpoint_bank_set_buffer(descr, endpoint, buf) ==
    [descr EXCEPT ![endpoint] = buf]

(* --------------------- bodies of the public calls -------------------- *)

\* enable_as_device without its own match: every state is handed to
\* _enable, whose fallback arm panics.
enable_as_device_body_unguarded(cell, speed) ==
    IF ~get_state_ok(cell)
    THEN Abort(cell, << >>, "get_state: state value is in use")
    ELSE _enable(cell, Device(speed, DeviceConfig_default, DeviceState_default))

\* enable_as_device whose fallback arm programs the registers again before
\* logging.
enable_as_device_body_reinit(cell, speed) ==
    IF ~get_state_ok(cell)
    THEN Abort(cell, << >>, "get_state: state value is in use")
    ELSE IF get_state(cell).tag = "Reset"
         THEN _enable(cell, Device(speed, DeviceConfig_default, DeviceState_default))
         ELSE Return(cell, _enable_writes, "Already enabled")

\* enable_as_device that enables again when already enabled: the fallback
\* arm stores Idle with a mode built from the new speed.
enable_as_device_body_reenable(cell, speed) ==
    IF ~get_state_ok(cell)
    THEN Abort(cell, << >>, "get_state: state value is in use")
    ELSE IF get_state(cell).tag = "Reset"
         THEN _enable(cell, Device(speed, DeviceConfig_default, DeviceState_default))
         ELSE Return(set_state(Idle(Device(speed, DeviceConfig_default,
                                           DeviceState_default))),
                     << >>, "Already enabled")

enable_as_device_body(cell, speed) ==
    IF ~get_state_ok(cell)
    THEN Abort(cell, << >>, "get_state: state value is in use")
    ELSE IF get_state(cell).tag = "Reset"
         THEN _enable(cell, Device(speed, DeviceConfig_default, DeviceState_default))
         ELSE Return(cell, << >>, "Already enabled")

\* attach whose last write names the other field of usbctrl: the
\* whole-register store leaves the enable bit clear.
attach_writes_address_field ==
    << write("rxenable_setup", SETUP10),
       write("rxenable_out", OUT0),
       RegWrite("usbctrl", 0) >>

attach_writes ==
    << write("rxenable_setup", SETUP10),
       write("rxenable_out", OUT0),
       write("usbctrl", ENABLE) >>

\* attach that builds a fresh mode instead of carrying the Idle payload.
attach_body_fresh_mode(cell) ==
    IF ~get_state_ok(cell)
    THEN Abort(cell, << >>, "get_state: state value is in use")
    ELSE CASE get_state(cell).tag = "Reset" -> Return(cell, << >>, "Not enabled")
           [] get_state(cell).tag = "Active" -> Return(cell, << >>, "Already attached")
           [] get_state(cell).tag = "Idle" ->
                Return(set_state(Active(Device("Full", DeviceConfig_default,
                                               DeviceState_default))),
                       attach_writes, "")

\* attach that programs the registers again when already Active.
attach_body_rewrites(cell) ==
    IF ~get_state_ok(cell)
    THEN Abort(cell, << >>, "get_state: state value is in use")
    ELSE CASE get_state(cell).tag = "Reset" -> Return(cell, << >>, "Not enabled")
           [] get_state(cell).tag = "Active" ->
                Return(cell, attach_writes, "Already attached")
           [] get_state(cell).tag = "Idle" ->
                Return(set_state(Active(get_state(cell).mode)), attach_writes, "")

attach_body(cell) ==
    IF ~get_state_ok(cell)
    THEN Abort(cell, << >>, "get_state: state value is in use")
    ELSE CASE get_state(cell).tag = "Reset" -> Return(cell, << >>, "Not enabled")
           [] get_state(cell).tag = "Active" -> Return(cell, << >>, "Already attached")
           [] get_state(cell).tag = "Idle" ->
                Return(set_state(Active(get_state(cell).mode)), attach_writes, "")

\* endpoint_in_enable whose Bulk arm omits the receive-out write.
endpoint_in_enable_writes_bulk_setup_only(transfer_type, endpoint) ==
    CASE transfer_type = "Control" ->
            << set("rxenable_setup", endpoint), set("rxenable_out", endpoint) >>
      [] transfer_type = "Bulk" -> << set("rxenable_setup", endpoint) >>
      [] transfer_type = "Interrupt" -> << >>
      [] transfer_type = "Isochronous" ->
            << set("rxenable_setup", endpoint), set("rxenable_out", endpoint),
               set("iso", endpoint) >>

endpoint_in_enable_writes(transfer_type, endpoint) ==
    CASE transfer_type = "Control" ->
            << set("rxenable_setup", endpoint), set("rxenable_out", endpoint) >>
      [] transfer_type = "Bulk" ->
            << set("rxenable_setup", endpoint), set("rxenable_out", endpoint) >>
      [] transfer_type = "Interrupt" -> << >>
      [] transfer_type = "Isochronous" ->
            << set("rxenable_setup", endpoint), set("rxenable_out", endpoint),
               set("iso", endpoint) >>

\* endpoint_in_enable whose Interrupt arm shares the Bulk arm.
endpoint_in_enable_body_interrupt_as_bulk(cell, transfer_type, endpoint) ==
    IF transfer_type = "Interrupt"
    THEN Return(cell, endpoint_in_enable_writes("Bulk", endpoint), "")
    ELSE Return(cell, endpoint_in_enable_writes(transfer_type, endpoint), "")

endpoint_in_enable_body(cell, transfer_type, endpoint) ==
    IF transfer_type = "Interrupt"
    THEN Unimplemented(cell)
    ELSE Return(cell, endpoint_in_enable_writes(transfer_type, endpoint), "")

\* endpoint_out_enable whose Bulk arm is the one of endpoint_in_enable.
endpoint_out_enable_writes_bulk_as_in(transfer_type, endpoint) ==
    CASE transfer_type = "Control" -> << set("rxenable_setup", endpoint) >>
      [] transfer_type = "Bulk" ->
            << set("rxenable_setup", endpoint), set("rxenable_out", endpoint) >>
      [] transfer_type = "Interrupt" -> << >>
      [] transfer_type = "Isochronous" ->
            << set("rxenable_setup", endpoint), set("iso", endpoint) >>

endpoint_out_enable_writes(transfer_type, endpoint) ==
    CASE transfer_type = "Control" -> << set("rxenable_setup", endpoint) >>
      [] transfer_type = "Bulk" -> << set("rxenable_setup", endpoint) >>
      [] transfer_type = "Interrupt" -> << >>
      [] transfer_type = "Isochronous" ->
            << set("rxenable_setup", endpoint), set("iso", endpoint) >>

endpoint_out_enable_body(cell, transfer_type, endpoint) ==
    IF transfer_type = "Interrupt"
    THEN Unimplemented(cell)
    ELSE Return(cell, endpoint_out_enable_writes(transfer_type, endpoint), "")

\* handle_interrupt that acknowledges the event by clearing the
\* interrupt-status register.
handle_interrupt_body_clears(cell) ==
    Return(cell, << RegWrite("intr_state", 0) >>, "USB IRQ")

\* handle_interrupt that takes the state out of the cell to work on it and
\* does not put it back.
handle_interrupt_body_takes_state(cell) == Return(None, << >>, "USB IRQ")

handle_interrupt_body(cell) == Return(cell, << >>, "USB IRQ")

(* ------------------------------ actions ------------------------------ *)

\* A call that touches the cell and the registers only.
Call(call, r) ==
    /\ panic = "none"
    /\ pc = idle
    /\ state' = r.state
    /\ writes' = r.writes
    /\ regs' = ApplyWrites(regs, r.writes)
    /\ log' = r.log
    /\ panic' = r.panic
    /\ last_call' = call
    /\ UNCHANGED <<descriptors, pc>>

\* A buffer-set call that refuses to run before the controller is enabled.
SetBuffer_requires_enabled(call, endpoint, buf) ==
    /\ panic = "none"
    /\ pc = idle
    /\ IF _endpoint_bank_set_buffer_ok(endpoint) /\ get_state(state).tag # "Reset"
       THEN /\ descriptors' = _endpoint_bank_set_buffer(descriptors, endpoint, buf)
            /\ panic' = "none"
       ELSE /\ descriptors' = descriptors
            /\ panic' = IF _endpoint_bank_set_buffer_ok(endpoint)
                        THEN "Not enabled" ELSE "index out of bounds"
    /\ writes' = << >>
    /\ log' = ""
    /\ last_call' = call
    /\ UNCHANGED <<state, regs, pc>>

\* A buffer-set call: one descriptor slot, or a panic on the index.
SetBuffer(call, endpoint, buf) ==
    /\ panic = "none"
    /\ pc = idle
    /\ IF _endpoint_bank_set_buffer_ok(endpoint)
       THEN /\ descriptors' = _endpoint_bank_set_buffer(descriptors, endpoint, buf)
            /\ panic' = "none"
       ELSE /\ descriptors' = descriptors
            /\ panic' = "index out of bounds"
    /\ writes' = << >>
    /\ log' = ""
    /\ last_call' = call
    /\ UNCHANGED <<state, regs, pc>>

enable_as_device ==
    \E speed \in DeviceSpeed :
        Call([op |-> "enable_as_device", speed |-> speed],
             enable_as_device_body(state, speed))

attach == Call([op |-> "attach"], attach_body(state))

endpoint_in_enable ==
    \E transfer_type \in TransferType, endpoint \in EndpointInputs :
        Call([op |-> "endpoint_in_enable", transfer_type |-> transfer_type,
              endpoint |-> endpoint],
             endpoint_in_enable_body(state, transfer_type, endpoint))

endpoint_out_enable ==
    \E transfer_type \in TransferType, endpoint \in EndpointInputs :
        Call([op |-> "endpoint_out_enable", transfer_type |-> transfer_type,
              endpoint |-> endpoint],
             endpoint_out_enable_body(state, transfer_type, endpoint))

endpoint_set_ctrl_buffer ==
    \E buf \in Buffers :
        SetBuffer([op |-> "endpoint_set_ctrl_buffer", buf |-> buf], 0, buf)

endpoint_set_in_buffer ==
    \E endpoint \in BufEndpointInputs, buf \in Buffers :
        SetBuffer([op |-> "endpoint_set_in_buffer", endpoint |-> endpoint, buf |-> buf],
                  endpoint, buf)

endpoint_set_out_buffer ==
    \E endpoint \in BufEndpointInputs, buf \in Buffers :
        SetBuffer([op |-> "endpoint_set_out_buffer", endpoint |-> endpoint, buf |-> buf],
                  endpoint, buf)

detach == Call([op |-> "detach"], Unimplemented(state))

set_address == Call([op |-> "set_address"], Unimplemented(state))

enable_address == Call([op |-> "enable_address"], Unimplemented(state))

endpoint_in_out_enable == Call([op |-> "endpoint_in_out_enable"], Unimplemented(state))

endpoint_resume_in == Call([op |-> "endpoint_resume_in"], Unimplemented(state))

endpoint_resume_out == Call([op |-> "endpoint_resume_out"], Unimplemented(state))

handle_interrupt == Call([op |-> "handle_interrupt"], handle_interrupt_body(state))

Next ==
    \/ enable_as_device
    \/ attach
    \/ endpoint_in_enable
    \/ endpoint_out_enable
    \/ endpoint_set_ctrl_buffer
    \/ endpoint_set_in_buffer
    \/ endpoint_set_out_buffer
    \/ detach
    \/ set_address
    \/ enable_address
    \/ endpoint_in_out_enable
    \/ endpoint_resume_in
    \/ endpoint_resume_out
    \/ handle_interrupt

Spec == Init /\ [][Next]_vars

(* ---------------- interrupt-level model of the lifecycle ------------- *)
(* enable_as_device and attach run one statement at a time, and the      *)
(* hardware and the interrupt entry point may act between any two of     *)
(* them.                                                                  *)

\* The hardware raises an interrupt event: one interrupt-status bit becomes
\* set, at any point of the driver's execution.
interrupt_raised ==
    \E bit \in IntrBits :
        /\ panic = "none"
        /\ regs' = [regs EXCEPT !["intr_state"] = SetBit(@, bit)]
        /\ last_call' = [op |-> "interrupt_raised", bit |-> bit]
        /\ UNCHANGED <<state, descriptors, writes, log, panic, pc>>

\* enable_as_device up to its call of _enable; outside Reset the whole call
\* is its single debug! statement.
enable_as_device_begin ==
    \E speed \in DeviceSpeed :
        IF get_state_ok(state) /\ get_state(state).tag = "Reset"
        THEN /\ panic = "none"
             /\ pc = idle
             /\ pc' = [op |-> "_enable", at |-> 0,
                       mode |-> Device(speed, DeviceConfig_default, DeviceState_default)]
             /\ last_call' = [op |-> "enable_as_device", speed |-> speed]
             /\ writes' = << >>
             /\ log' = ""
             /\ UNCHANGED <<state, regs, descriptors, panic>>
        ELSE Call([op |-> "enable_as_device", speed |-> speed],
                  enable_as_device_body(state, speed))

\* One statement of _enable: its own match on get_state, then the register
\* writes in program order, then set_state.
_enable_step ==
    /\ panic = "none"
    /\ pc.op = "_enable"
    /\ IF pc.at = 0
       THEN IF get_state_ok(state) /\ get_state(state).tag = "Reset"
            THEN /\ pc' = [pc EXCEPT !.at = 1]
                 /\ UNCHANGED <<state, regs, writes, panic>>
            ELSE /\ panic' = IF get_state_ok(state) THEN "Already enabled"
                             ELSE "get_state: state value is in use"
                 /\ UNCHANGED <<state, regs, writes, pc>>
       ELSE IF pc.at <= Len(_enable_writes)
            THEN /\ regs' = ApplyWrites(regs, << _enable_writes[pc.at] >>)
                 /\ writes' = Append(writes, _enable_writes[pc.at])
                 /\ pc' = [pc EXCEPT !.at = @ + 1]
                 /\ UNCHANGED <<state, panic>>
            ELSE /\ state' = set_state(Idle(pc.mode))
                 /\ pc' = idle
                 /\ UNCHANGED <<regs, writes, panic>>
    /\ last_call' = [op |-> "enable_as_device", speed |-> pc.mode.speed]
    /\ UNCHANGED <<descriptors, log>>

\* attach up to its match on get_state; outside Idle the whole call is its
\* single client_warn! statement.
attach_begin ==
    IF get_state_ok(state) /\ get_state(state).tag = "Idle"
    THEN /\ panic = "none"
         /\ pc = idle
         /\ pc' = [op |-> "attach", at |-> 1, mode |-> get_state(state).mode]
         /\ last_call' = [op |-> "attach"]
         /\ writes' = << >>
         /\ log' = ""
         /\ UNCHANGED <<state, regs, descriptors, panic>>
    ELSE Call([op |-> "attach"], attach_body(state))

\* One statement of attach's Idle arm: the register writes in program
\* order, then set_state.
attach_step ==
    /\ panic = "none"
    /\ pc.op = "attach"
    /\ IF pc.at <= Len(attach_writes)
       THEN /\ regs' = ApplyWrites(regs, << attach_writes[pc.at] >>)
            /\ writes' = Append(writes, attach_writes[pc.at])
            /\ pc' = [pc EXCEPT !.at = @ + 1]
            /\ UNCHANGED state
       ELSE /\ state' = set_state(Active(pc.mode))
            /\ pc' = idle
            /\ UNCHANGED <<regs, writes>>
    /\ last_call' = [op |-> "attach"]
    /\ UNCHANGED <<descriptors, log, panic>>

\* handle_interrupt preempting a call in progress: it logs and returns to
\* the interrupted statement.
handle_interrupt_preempt ==
    /\ panic = "none"
    /\ pc # idle
    /\ state' = handle_interrupt_body(state).state
    /\ log' = handle_interrupt_body(state).log
    /\ last_call' = [op |-> "handle_interrupt"]
    /\ UNCHANGED <<regs, descriptors, writes, panic, pc>>

NextIrq ==
    \/ enable_as_device_begin
    \/ _enable_step
    \/ attach_begin
    \/ attach_step
    \/ endpoint_in_enable
    \/ endpoint_set_ctrl_buffer
    \/ handle_interrupt
    \/ handle_interrupt_preempt
    \/ interrupt_raised

SpecIrq == Init /\ [][NextIrq]_vars

(* ============================== claims =============================== *)

\* C1: enable_as_device(s) called in state Reset leaves the controller in
\* Idle(Device{speed = s, configuration all None, every runtime state
\* Disabled}), for every speed s.
C1_EnableFromReset ==
    [][ (/\ last_call'.op = "enable_as_device"
         /\ state = [is_some |-> TRUE, val |-> [tag |-> "Reset"]])
        => state' = [is_some |-> TRUE,
                     val |-> [tag |-> "Idle",
                              mode |-> [kind |-> "Device",
                                        speed |-> last_call'.speed,
                                        config |-> [e \in 0..11 |-> "None"],
                                        state |-> [e \in 0..11 |-> "Disabled"]]]]
      ]_vars

\* C1 witness: enable_as_device(Low) has just taken the controller out of
\* Reset.
C1_Witness ==
    /\ last_call.op = "enable_as_device"
    /\ last_call.speed = "Low"
    /\ writes # << >>
    /\ state.is_some /\ state.val.tag = "Idle"

C3_SecondEnableWritesNothing ==
    [][ (/\ last_call'.op = "enable_as_device"
         /\ state.is_some /\ state.val.tag # "Reset")
        => (writes' = << >> /\ regs' = regs /\ state' = state)
      ]_vars

\* C3 witness: enable_as_device(Full) was called on a controller enabled at
\* Low speed whose receive masks no longer hold the values _enable programs.
C3_Witness ==
    /\ last_call.op = "enable_as_device"
    /\ last_call.speed = "Full"
    /\ log = "Already enabled"
    /\ state.is_some /\ state.val.tag = "Idle" /\ state.val.mode.speed = "Low"
    /\ regs.rxenable_setup # 1
    /\ regs.rxenable_out # 1

\* C4: attach() called in Idle(mode) leaves the controller in Active(mode)
\* with the same mode payload, whatever was done since enable_as_device.
C4_AttachKeepsMode ==
    [][ (/\ last_call'.op = "attach"
         /\ state.is_some /\ state.val.tag = "Idle")
        => state' = [is_some |-> TRUE,
                     val |-> [tag |-> "Active", mode |-> state.val.mode]]
      ]_vars

\* C4 witness: attach() has activated a Low-speed device after endpoints
\* were enabled and a buffer was staged.
C4_Witness ==
    /\ last_call.op = "attach"
    /\ writes # << >>
    /\ state.is_some /\ state.val.tag = "Active" /\ state.val.mode.speed = "Low"
    /\ regs.iso # 0
    /\ descriptors[0] # NULL

\* C5: attach() called in Reset or in Active changes neither the controller
\* state nor any register, issues no register write, logs a warning and
\* returns normally.
C5_AttachOutsideIdleIsNoOp ==
    [][ (/\ last_call'.op = "attach"
         /\ state.is_some /\ state.val.tag # "Idle")
        => /\ state' = state
           /\ writes' = << >>
           /\ regs' = regs
           /\ panic' = "none"
           /\ log' = (IF state.val.tag = "Reset" THEN "Not enabled"
                                                 ELSE "Already attached")
      ]_vars

\* C5 witness: a second attach() has returned on an Active controller whose
\* receive-setup mask is no longer the one attach() programs.
C5_Witness ==
    /\ last_call.op = "attach"
    /\ log = "Already attached"
    /\ panic = "none"
    /\ state.is_some /\ state.val.tag = "Active"
    /\ regs.rxenable_setup # 2 ^ 10

\* C6 (as claimed): attach() from Idle only adds receive-setup enable bits:
\* every bit set before the call is still set after it.
C6_AttachBroadensSetupMask ==
    [][ (/\ last_call'.op = "attach"
         /\ state.is_some /\ state.val.tag = "Idle")
        => \A i \in 0..11 :
               Bit(regs.rxenable_setup, i) => Bit(regs'.rxenable_setup, i)
      ]_vars

\* C7 (as claimed): endpoint_in_enable(type, e) for Control, Bulk or
\* Isochronous sets receive-setup bit e and receive-out bit e (and
\* isochronous bit e only for Isochronous) and changes no other bit of any
\* register.
C7_InEnableSetsOnlyItsBits ==
    [][ (/\ last_call'.op = "endpoint_in_enable"
         /\ last_call'.transfer_type \in {"Control", "Bulk", "Isochronous"})
        => LET e == last_call'.endpoint
               iso == last_call'.transfer_type = "Isochronous"
           IN  /\ Bit(regs'.rxenable_setup, e)
               /\ Bit(regs'.rxenable_out, e)
               /\ Bit(regs'.iso, e) = (iso \/ Bit(regs.iso, e))
               /\ \A i \in (0..11) \ {e} :
                      /\ Bit(regs'.rxenable_setup, i) = Bit(regs.rxenable_setup, i)
                      /\ Bit(regs'.rxenable_out, i) = Bit(regs.rxenable_out, i)
                      /\ Bit(regs'.iso, i) = Bit(regs.iso, i)
               /\ regs'.usbctrl = regs.usbctrl
      ]_vars

\* C8 (as claimed): endpoint_out_enable(type, e) for Control, Bulk or
\* Isochronous sets receive-setup bit e and every other receive-setup bit
\* keeps the value it had.
C8_OutEnableSetsOnlyItsSetupBit ==
    [][ (/\ last_call'.op = "endpoint_out_enable"
         /\ last_call'.transfer_type \in {"Control", "Bulk", "Isochronous"})
        => /\ Bit(regs'.rxenable_setup, last_call'.endpoint)
           /\ \A i \in (0..11) \ {last_call'.endpoint} :
                  Bit(regs'.rxenable_setup, i) = Bit(regs.rxenable_setup, i)
      ]_vars

\* C9: endpoint_out_enable never writes the receive-out register, and
\* writes the isochronous register only for Isochronous; for Control and
\* Bulk both registers hold the same value after the call as before.
C9_OutEnableLeavesOutAndIso ==
    [][ (last_call'.op = "endpoint_out_enable")
        => /\ \A k \in 1..Len(writes') : writes'[k].reg # "rxenable_out"
           /\ regs'.rxenable_out = regs.rxenable_out
           /\ (last_call'.transfer_type # "Isochronous"
                  => /\ \A k \in 1..Len(writes') : writes'[k].reg # "iso"
                     /\ regs'.iso = regs.iso)
           /\ (last_call'.transfer_type = "Isochronous"
                  => \E k \in 1..Len(writes') : writes'[k].reg = "iso")
      ]_vars

\* C9 witness: endpoint_out_enable(Bulk, e) has returned while the
\* receive-out and isochronous registers hold bits of another endpoint.
C9_Witness ==
    /\ last_call.op = "endpoint_out_enable"
    /\ last_call.transfer_type = "Bulk"
    /\ panic = "none"
    /\ regs.rxenable_out # 0 /\ ~Bit(regs.rxenable_out, last_call.endpoint)
    /\ regs.iso # 0 /\ ~Bit(regs.iso, last_call.endpoint)

\* C10: for every endpoint e and every prior register state, a Control
\* enable and a Bulk enable of e issue the same sequence of register writes
\* and leave the same register values, for endpoint_in_enable and for
\* endpoint_out_enable alike.
C10_ControlAndBulkAgree ==
    [][ (/\ last_call'.op \in {"endpoint_in_enable", "endpoint_out_enable"}
         /\ last_call'.transfer_type \in {"Control", "Bulk"})
        => LET other == IF last_call'.transfer_type = "Control" THEN "Bulk"
                                                                ELSE "Control"
               ws == IF last_call'.op = "endpoint_in_enable"
                     THEN endpoint_in_enable_writes(other, last_call'.endpoint)
                     ELSE endpoint_out_enable_writes(other, last_call'.endpoint)
           IN  /\ writes' = ws
               /\ regs' = ApplyWrites(regs, ws)
               /\ ws # << >>
      ]_vars

\* C10 witness: endpoint_in_enable(Control, 10) has run on an enabled
\* controller whose isochronous register already held endpoint 0's bit.
C10_Witness ==
    /\ last_call.op = "endpoint_in_enable"
    /\ last_call.transfer_type = "Control"
    /\ last_call.endpoint = 10
    /\ regs.iso = 2 ^ 0
    /\ regs.usbctrl = 1

\* C11: detach, set_address, enable_address, endpoint_in_out_enable,
\* endpoint_resume_in and endpoint_resume_out, called in any controller
\* state, end in an explicit "not implemented" outcome that is not a normal
\* return, and change neither the controller state, nor any register, nor
\* any endpoint descriptor.
C11_UnimplementedIsExplicit ==
    [][ (last_call'.op \in {"detach", "set_address", "enable_address",
                            "endpoint_in_out_enable", "endpoint_resume_in",
                            "endpoint_resume_out"})
        => /\ panic' = "not implemented"
           /\ state' = state
           /\ writes' = << >>
           /\ regs' = regs
           /\ descriptors' = descriptors
      ]_vars

\* C11 witness: endpoint_resume_in has aborted on an attached controller
\* with a staged buffer.
C11_Witness ==
    /\ last_call.op = "endpoint_resume_in"
    /\ panic = "not implemented"
    /\ state.is_some /\ state.val.tag = "Active"
    /\ descriptors[0] # NULL

\* C12: endpoint_in_enable and endpoint_out_enable called with transfer
\* type Interrupt end in "not implemented" for every endpoint and in every
\* controller state, and issue no register write before that.
C12_InterruptTypeUnsupported ==
    [][ (/\ last_call'.op \in {"endpoint_in_enable", "endpoint_out_enable"}
         /\ last_call'.transfer_type = "Interrupt")
        => /\ panic' = "not implemented"
           /\ writes' = << >>
           /\ regs' = regs
           /\ state' = state
      ]_vars

\* C12 witness: endpoint_in_enable(Interrupt, 10) has aborted on an enabled
\* controller whose receive masks are programmed.
C12_Witness ==
    /\ last_call.op = "endpoint_in_enable"
    /\ last_call.transfer_type = "Interrupt"
    /\ last_call.endpoint = 10
    /\ panic = "not implemented"
    /\ state.is_some /\ state.val.tag = "Idle"
    /\ regs.rxenable_setup = 1 /\ regs.rxenable_out = 1

\* C13: every endpoint descriptor starts null, and a buffer-set call
\* (endpoint_set_in_buffer or endpoint_set_out_buffer) for endpoint e < 12
\* with buffer b leaves descriptor e holding b and every other descriptor
\* holding the value it had.
C13_SetBufferWritesOneSlot ==
    /\ \A e \in 0..11 : descriptors[e] = 0
    /\ [][ (/\ last_call'.op \in {"endpoint_set_in_buffer", "endpoint_set_out_buffer"}
            /\ last_call'.endpoint < 12)
           => /\ descriptors'[last_call'.endpoint] = last_call'.buf
              /\ \A i \in (0..11) \ {last_call'.endpoint} :
                     descriptors'[i] = descriptors[i]
         ]_vars

\* C13 witness: endpoint_set_out_buffer(11, 2) has run while slot 0 held
\* buffer 1.
C13_Witness ==
    /\ last_call.op = "endpoint_set_out_buffer"
    /\ last_call.endpoint = 11
    /\ last_call.buf = 2
    /\ descriptors[11] = 2
    /\ descriptors[0] = 1

\* C14: the buffer-set calls with an endpoint below 12 succeed in Reset,
\* Idle and Active alike, leave the controller state and every register
\* unchanged and issue no register write; and enable_as_device and attach
\* leave every descriptor as it was, so a buffer staged in Reset is still
\* there afterwards.
C14_SetBufferInAnyState ==
    [][ /\ (/\ last_call'.op \in {"endpoint_set_ctrl_buffer", "endpoint_set_in_buffer",
                                  "endpoint_set_out_buffer"}
            /\ (last_call'.op # "endpoint_set_ctrl_buffer" => last_call'.endpoint < 12))
           => /\ panic' = "none"
              /\ descriptors'[IF last_call'.op = "endpoint_set_ctrl_buffer"
                              THEN 0 ELSE last_call'.endpoint] = last_call'.buf
              /\ state' = state
              /\ regs' = regs
              /\ writes' = << >>
        /\ (last_call'.op \in {"enable_as_device", "attach"})
           => descriptors' = descriptors
      ]_vars

\* C14 witness: attach() has activated a controller whose last descriptor
\* still holds a staged buffer.
C14_Witness ==
    /\ last_call.op = "attach"
    /\ writes # << >>
    /\ state.is_some /\ state.val.tag = "Active"
    /\ descriptors[11] = 2

\* C17 (as claimed): after endpoint_in_enable or endpoint_out_enable for
\* endpoint e (Control, Bulk or Isochronous) on an enabled controller (Idle
\* or Active, device mode), the runtime state of endpoint e held in the
\* controller state is no longer Disabled.
C17_EnableRearmsEndpointState ==
    [][ (/\ last_call'.op \in {"endpoint_in_enable", "endpoint_out_enable"}
         /\ last_call'.transfer_type \in {"Control", "Bulk", "Isochronous"}
         /\ state.is_some /\ state.val.tag \in {"Idle", "Active"}
         /\ state.val.mode.kind = "Device")
        => /\ state'.is_some /\ state'.val.tag \in {"Idle", "Active"}
           /\ state'.val.mode.state[last_call'.endpoint] # "Disabled"
      ]_vars

\* C18 (as claimed): right after enable_as_device from Reset, receive-setup
\* bit 0, receive-out bit 0 and usbctrl.ENABLE are set, and every
\* receive-setup and receive-out bit that was set before the call is still
\* set.
C18_EnableKeepsStagedBits ==
    [][ (/\ last_call'.op = "enable_as_device"
         /\ state = [is_some |-> TRUE, val |-> [tag |-> "Reset"]])
        => /\ Bit(regs'.rxenable_setup, 0)
           /\ Bit(regs'.rxenable_out, 0)
           /\ Bit(regs'.usbctrl, 0)
           /\ \A i \in 0..11 :
                  /\ Bit(regs.rxenable_setup, i) => Bit(regs'.rxenable_setup, i)
                  /\ Bit(regs.rxenable_out, i) => Bit(regs'.rxenable_out, i)
      ]_vars

\* C20: endpoint_set_ctrl_buffer stores into descriptor 0, and
\* endpoint_set_in_buffer(e, b) and endpoint_set_out_buffer(e, b) store into
\* the same descriptor e; no other step changes a descriptor, so descriptor
\* e always holds the buffer of the most recent buffer-set call that
\* targeted e, whatever its direction.
C20_LastBufferSetWins ==
    [][ LET setter == last_call'.op \in {"endpoint_set_ctrl_buffer",
                                         "endpoint_set_in_buffer",
                                         "endpoint_set_out_buffer"}
            target == IF last_call'.op = "endpoint_set_ctrl_buffer"
                      THEN 0 ELSE last_call'.endpoint
        IN  IF setter /\ target < 12
            THEN descriptors' = [i \in 0..11 |->
                                    IF i = target THEN last_call'.buf
                                                  ELSE descriptors[i]]
            ELSE descriptors' = descriptors
      ]_vars

\* C20 witness: endpoint_set_ctrl_buffer(2) has been stored into descriptor
\* 0, the slot of endpoint 0, while descriptor 11 holds another buffer.
C20_Witness ==
    /\ last_call.op = "endpoint_set_ctrl_buffer"
    /\ last_call.buf = 2
    /\ descriptors[0] = 2
    /\ descriptors[11] = 1

\* C16: handle_interrupt, in every controller state, for every value of the
\* interrupt-status register and also when it preempts a call in progress,
\* returns normally after logging, issues no register write, and leaves the
\* controller state, every register (the interrupt-status bits stay set)
\* and every endpoint descriptor unchanged.
C16_InterruptOnlyRecorded ==
    [][ (last_call'.op = "handle_interrupt")
        => /\ panic' = "none"
           /\ log' = "USB IRQ"
           /\ state' = state
           /\ regs' = regs
           /\ descriptors' = descriptors
           /\ writes' = (IF pc.op = "idle" THEN << >> ELSE writes)
           /\ pc' = pc
      ]_vars

\* C16 witness: handle_interrupt has returned on an attached controller
\* with a staged buffer while the packet-received and the CRC-error status
\* bits are both still set.
C16_Witness ==
    /\ last_call.op = "handle_interrupt"
    /\ log = "USB IRQ"
    /\ regs.intr_state = 2 ^ 0 + 2 ^ 11
    /\ state.is_some /\ state.val.tag = "Active"
    /\ descriptors[0] # NULL

\* C19: within enable_as_device from Reset and within attach from Idle the
\* statements run in the order receive-setup write, receive-out write,
\* usbctrl write, state store, whatever interrupts arrive in between: the
\* trace of the call in progress only grows in that order, the state is
\* stored only once all three writes are in the trace, and no state shows
\* Idle or Active while the enable bit is clear.
C19_WritesThenState ==
    [][ LET order == << "rxenable_setup", "rxenable_out", "usbctrl" >>
        IN  /\ (state' # state)
               => /\ Len(writes) = 3
                  /\ \A k \in 1..3 : writes[k].reg = order[k]
                  /\ writes' = writes
            /\ (pc.op \in {"_enable", "attach"} /\ writes' # writes)
               => /\ Len(writes') = Len(writes) + 1
                  /\ Len(writes') <= 3
                  /\ \A k \in 1..Len(writes) : writes'[k] = writes[k]
                  /\ writes'[Len(writes')].reg = order[Len(writes')]
                  /\ regs'[order[Len(writes')]] = writes'[Len(writes')].val
            /\ (state'.is_some /\ state'.val.tag \in {"Idle", "Active"})
               => Bit(regs'.usbctrl, 0)
      ]_vars

\* C19 witness: an interrupt was handled inside _enable after both receive
\* masks were written and before the enable bit was: the state still shows
\* Reset.
C19_Witness ==
    /\ pc.op = "_enable"
    /\ Len(writes) = 2
    /\ last_call.op = "handle_interrupt"
    /\ state.is_some /\ state.val.tag = "Reset"
    /\ ~Bit(regs.usbctrl, 0)

\* C21 (as claimed): a buffer-set call with an endpoint index of 12 or more
\* is not rejected with a fail-fast error: the call returns normally.
C21_OutOfRangeNotRejected ==
    [][ (/\ last_call'.op \in {"endpoint_set_in_buffer", "endpoint_set_out_buffer"}
         /\ last_call'.endpoint >= 12)
        => panic' = "none"
      ]_vars

\* C21 (amended): a buffer-set call with an endpoint index of 12 or more is
\* rejected fail-fast by the bound check of the descriptor array's indexing:
\* it panics with "index out of bounds" and leaves every descriptor, every
\* register and the controller state as they were.
C21_OutOfRangeIsFatal ==
    [][ (/\ last_call'.op \in {"endpoint_set_in_buffer", "endpoint_set_out_buffer"}
         /\ last_call'.endpoint >= 12)
        => /\ panic' = "index out of bounds"
           /\ descriptors' = descriptors
           /\ regs' = regs
           /\ state' = state
           /\ writes' = << >>
      ]_vars

\* C21 witness: endpoint_set_in_buffer(12, 2) has panicked on an enabled
\* controller whose last descriptor holds buffer 1.
C21_Witness ==
    /\ last_call.op = "endpoint_set_in_buffer"
    /\ last_call.endpoint = 12
    /\ last_call.buf = 2
    /\ panic = "index out of bounds"
    /\ descriptors[11] = 1
    /\ state.is_some /\ state.val.tag = "Idle"

C23_EnableBitTracksState ==
    /\ [](pc.op = "idle" => (Bit(regs.usbctrl, 0) <=> state.val.tag # "Reset"))
    /\ [][ (pc.op = "idle" /\ pc'.op = "idle" /\ Bit(regs.usbctrl, 0))
           => Bit(regs'.usbctrl, 0)
         ]_vars

\* C23 witness: endpoint_out_enable(Isochronous, e) has rewritten the
\* receive-setup and isochronous registers of an attached controller, and
\* the enable bit is still set.
C23_Witness ==
    /\ last_call.op = "endpoint_out_enable"
    /\ last_call.transfer_type = "Isochronous"
    /\ pc.op = "idle"
    /\ state.is_some /\ state.val.tag = "Active"
    /\ regs.rxenable_setup # 2 ^ 10
    /\ Bit(regs.usbctrl, 0)

\* C24: the state cell holds a value in every reachable state, also when
\* interrupts are raised and handled between an operation's read of the
\* state and its store: get_state never finds the cell empty, and neither
\* the "get_state: state value is in use" panic nor the "Already enabled"
\* panic of _enable ever happens.
C24_StateCellNeverEmpty ==
    /\ state.is_some
    /\ panic # "get_state: state value is in use"
    /\ panic # "Already enabled"

\* C24 witness: an interrupt was raised and handled after enable_as_device
\* read the state and before _enable reads it again: the cell still holds
\* Reset.
C24_Witness ==
    /\ pc.op = "_enable"
    /\ pc.at = 0
    /\ last_call.op = "handle_interrupt"
    /\ regs.intr_state # 0
    /\ state.is_some /\ state.val.tag = "Reset"
    /\ panic = "none"

====
